---------------------------- MODULE Spec2Model ----------------------------
(***************************************************************************)
(* Scheduling-conflict and cross-aggregate consistency engine of the       *)
(* business-management-system: MeetingService, CalendarEventService, the   *)
(* partner / calendar-event / meeting repositories and the SQLAlchemy      *)
(* Unit-of-Work they share.                                                *)
(*                                                                         *)
(* The persistent state is the committed content of the tables            *)
(* calendar_events (+ users_calendar_events) and meetings (+ meeting_users),*)
(* and of task_comments for the TaskCommentService.                        *)
(* Each service method runs inside one `async with self.uow` scope; it is  *)
(* modelled as an operator from the committed database to the set of its   *)
(* possible outcomes, and one action per service method applies it.        *)
(* Columns that no modelled operation reads (title, topic, description,    *)
(* all_day, created_at, updated_at) are left out of the rows.              *)
(***************************************************************************)
EXTENDS Integers, Sequences, FiniteSets, TLC

VARIABLES events, meetings, share_call, uow, race, grade_call, comments

vars == <<events, meetings, share_call, uow, race, grade_call, comments>>

-----------------------------------------------------------------------------
(* Bounds of the model *)

MaxTime == 2
MaxEvents == 2
MaxMeetings == 1
MaxIds == 2

(* Python's None for an id (scalar_one_or_none); real ids are 1, 2, ... *)
Null == 0

Times == 0..MaxTime

-----------------------------------------------------------------------------
(* The users and commands tables (read-only for app_team).  u2 is a        *)
(* deactivated user, u0 and c0 are ids that resolve to no row.             *)

UserIds == {"u0", "u1", "u2", "u3"}
CommandIds == {"c0", "c1", "c2"}

Commands == {"c1", "c2"}

UserTbl ==
    [u \in {"u1", "u2", "u3"} |->
        CASE u = "u1" -> [command_id |-> "c1", is_active |-> TRUE]
          [] u = "u2" -> [command_id |-> "c1", is_active |-> FALSE]
          [] u = "u3" -> [command_id |-> "c2", is_active |-> TRUE]]

EventType == {"task", "meeting", "general"}
MeetingStatus == {"planned", "completed", "cancelled"}

SeqToSet(s) == {s[i] : i \in 1..Len(s)}

IdLists == UNION {[1..n -> UserIds] : n \in 0..MaxIds}

-----------------------------------------------------------------------------
(* The committed database as one value *)

DB == [events |-> events, meetings |-> meetings]

(* uuid.uuid4 primary-key defaults: a fresh id; rows are never deleted *)
NewEventId(db) == Cardinality(DOMAIN db.events) + 1
NewMeetingId(db) == Cardinality(DOMAIN db.meetings) + 1

-----------------------------------------------------------------------------
(* BaseSAUnitOfWork: a session holds the committed rows and the            *)
(* transaction's own view of them (committed rows plus flushed writes).    *)

UowEnter(db) == [committed |-> db, view |-> db]

UowCommit(s) == [committed |-> s.view, view |-> s.view]

UowRollbackNoop(s) == [committed |-> s.view, view |-> s.view]

UowRollback(s) == [committed |-> s.committed, view |-> s.committed]

(* __aexit__: roll back when the scope is left by an exception; closing    *)
(* the session discards whatever was not committed.                        *)
UowExit(s, exc) == IF exc THEN UowRollback(s).committed ELSE s.committed

-----------------------------------------------------------------------------
(* SAPartnerRepo *)

PartnerGetById(user_id) == user_id \in DOMAIN UserTbl

GetCommandById(command_id) == command_id \in Commands

UserShareCommandIdAnyCommand(user_ids, target_command_id) ==
    IF user_ids = {} THEN FALSE
    ELSE Cardinality({u \in DOMAIN UserTbl : u \in user_ids})
            = Cardinality(user_ids)

UserShareCommandIdCountOnly(user_ids, target_command_id) ==
    LET count_matching_users ==
            Cardinality({u \in DOMAIN UserTbl :
                            /\ u \in user_ids
                            /\ UserTbl[u].command_id = target_command_id})
    IN  count_matching_users = Cardinality(user_ids)

UserShareCommandId(user_ids, target_command_id) ==
    IF user_ids = {} THEN FALSE
    ELSE LET count_matching_users ==
                Cardinality({u \in DOMAIN UserTbl :
                                /\ u \in user_ids
                                /\ UserTbl[u].command_id = target_command_id})
         IN  count_matching_users = Cardinality(user_ids)

(* users_in_seq: raises ValueError for an empty id set, otherwise         *)
(* select(User).where(User.id.in_(user_ids)): the ids of the rows found     *)
UsersInSeqRaises(user_ids) == user_ids = {}

UsersInSeq(user_ids) == {u \in DOMAIN UserTbl : u \in user_ids}

-----------------------------------------------------------------------------
(* SACalendarEventRepo.check_overlap_users: the rows the statement selects, *)
(* and the values scalar_one_or_none() can return under LIMIT 1 without    *)
(* ORDER BY.                                                               *)

OverlapRowsEndTypo(db, start_time, end_time, user_ids, event_id) ==
    {e \in DOMAIN db.events :
        /\ db.events[e].users \cap user_ids # {}
        /\ ~(e = event_id)
        /\ db.events[e].start_time < end_time
        /\ db.events[e].end_time > end_time}

OverlapRowsInclusive(db, start_time, end_time, user_ids, event_id) ==
    {e \in DOMAIN db.events :
        /\ db.events[e].users \cap user_ids # {}
        /\ ~(e = event_id)
        /\ db.events[e].start_time <= end_time
        /\ db.events[e].end_time >= start_time}

OverlapRowsNoExclusion(db, start_time, end_time, user_ids, event_id) ==
    {e \in DOMAIN db.events :
        /\ db.events[e].users \cap user_ids # {}
        /\ db.events[e].start_time < end_time
        /\ db.events[e].end_time > start_time}

OverlapRowsNonEmptyWindow(db, start_time, end_time, user_ids, event_id) ==
    {e \in DOMAIN db.events :
        /\ db.events[e].users \cap user_ids # {}
        /\ ~(e = event_id)
        /\ start_time < end_time
        /\ db.events[e].start_time < end_time
        /\ db.events[e].end_time > start_time}

OverlapRows(db, start_time, end_time, user_ids, event_id) ==
    {e \in DOMAIN db.events :
        /\ db.events[e].users \cap user_ids # {}
        /\ ~(e = event_id)
        /\ db.events[e].start_time < end_time
        /\ db.events[e].end_time > start_time}

CheckOverlapUsers(db, start_time, end_time, user_ids, event_id) ==
    LET rows == OverlapRows(db, start_time, end_time, user_ids, event_id)
    IN  IF rows = {} THEN {Null} ELSE rows

-----------------------------------------------------------------------------
(* Domain models *)

(* CalendarEvent constructed from the schema dump: no participants yet *)
CalendarEventInit(start_time, end_time, event_type) ==
    [start_time |-> start_time, end_time |-> end_time,
     event_type |-> event_type, is_active |-> TRUE, users |-> {}]

(* users_calendar_events: one row per (user_id, calendar_event_id), the     *)
(* pair being the primary key.  event.users is a list that append and      *)
(* extend do not guard: when a user already among users is appended again, *)
(* the flush either emits no INSERT (the row exists; the commit succeeds   *)
(* and the stored rows are unchanged) or emits the INSERT for the reverse  *)
(* side User.calendar_events, which violates the primary key.  Which of    *)
(* the two happens depends on how User.calendar_events is loaded, so both  *)
(* results of the commit are possible.                                     *)
UsersCalendarEventsInsert(users, appended) ==
    IF users \cap appended = {} THEN {"ok"} ELSE {"ok", "IntegrityError"}

(* Meeting.add_members on a meeting row and the row of its calendar event *)
AddMembersMeetingOnly(pair, new_members) ==
    [meeting |-> [pair.meeting EXCEPT !.members = @ \cup new_members],
     event   |-> pair.event]

AddMembersEventOnly(pair, new_members) ==
    [meeting |-> pair.meeting,
     event   |-> [pair.event EXCEPT !.users = @ \cup new_members]]

AddMembers(pair, new_members) ==
    [meeting |-> [pair.meeting EXCEPT !.members = @ \cup new_members],
     event   |-> [pair.event EXCEPT !.users = @ \cup new_members]]

(* Meeting.__init__: the meeting row and the calendar event it creates.    *)
(* A status of None is left to the column default.                         *)
MeetingInitDefaultType(data, meet_members, event_id) ==
    LET pair ==
          [meeting |->
              [status |-> IF data.status = "None" THEN "planned"
                          ELSE data.status,
               start_time |-> data.start_time,
               end_time |-> data.end_time,
               is_active |-> TRUE,
               creator_id |-> data.creator_id,
               command_id |-> data.command_id,
               calendar_event_id |-> event_id,
               members |-> {}],
           event |-> CalendarEventInit(data.start_time, data.end_time,
                                       "general")]
    IN  IF meet_members # {} THEN AddMembers(pair, meet_members) ELSE pair

MeetingInit(data, meet_members, event_id) ==
    LET pair ==
          [meeting |->
              [status |-> IF data.status = "None" THEN "planned"
                          ELSE data.status,
               start_time |-> data.start_time,
               end_time |-> data.end_time,
               is_active |-> TRUE,
               creator_id |-> data.creator_id,
               command_id |-> data.command_id,
               calendar_event_id |-> event_id,
               members |-> {}],
           event |-> CalendarEventInit(data.start_time, data.end_time,
                                       "meeting")]
    IN  IF meet_members # {} THEN AddMembers(pair, meet_members) ELSE pair

-----------------------------------------------------------------------------
(* Writes of a session: session.add + flush put the rows into the view *)

Put(f, k, v) == [x \in DOMAIN f \cup {k} |-> IF x = k THEN v ELSE f[x]]

EventsAdd(s, event_id, event) ==
    [s EXCEPT !.view.events = Put(@, event_id, event)]

MeetingsAddNoCascade(s, meeting_id, pair) ==
    [s EXCEPT !.view.meetings = Put(@, meeting_id, pair.meeting)]

(* SAMeetingRepo.add: the flush cascades to the meeting's calendar event *)
MeetingsAdd(s, meeting_id, pair) ==
    [s EXCEPT !.view.events = Put(@, pair.meeting.calendar_event_id,
                                  pair.event),
              !.view.meetings = Put(@, meeting_id, pair.meeting)]

(* The outcome of a service call: the committed database once the scope   *)
(* is left, and what the caller can observe: the exception raised ("ok"    *)
(* for a normal return), the id an OverlapError carries, the id            *)
(* check_overlap_users returned, the number of uow.commit() calls and      *)
(* whether rows were flushed to the transaction.                           *)
Outcome(s, err, eid, ov, commits, flushed) ==
    [db |-> UowExit(s, err # "ok"), err |-> err, eid |-> eid, ov |-> ov,
     commits |-> commits, flushed |-> flushed]

-----------------------------------------------------------------------------
(* MeetingService *)

MeetingServiceCreate(db, data) ==
    LET s0 == UowEnter(db)
    IN
    IF ~PartnerGetById(data.creator_id)
    THEN {Outcome(s0, "UserNotFound", Null, Null, 0, FALSE)}
    ELSE IF ~GetCommandById(data.command_id)
    THEN {Outcome(s0, "CommandNotFound", Null, Null, 0, FALSE)}
    ELSE IF ~UserShareCommandId(SeqToSet(data.members_ids), data.command_id)
    THEN {Outcome(s0, "ValueError", Null, Null, 0, FALSE)}
    ELSE IF UsersInSeqRaises(SeqToSet(data.members_ids))
    THEN {Outcome(s0, "ValueError", Null, Null, 0, FALSE)}
    ELSE
      LET members == UsersInSeq(SeqToSet(data.members_ids))
          pair == MeetingInit(data, members, NewEventId(s0.view))
          s1 == MeetingsAdd(s0, NewMeetingId(s0.view), pair)
          event_id == pair.meeting.calendar_event_id
      IN  {IF overlap # Null
           THEN Outcome(s1, "OverlapError",
                        event_id, overlap, 0, TRUE)
           ELSE Outcome(UowCommit(s1), "ok", Null, Null, 1, TRUE) :
             overlap \in CheckOverlapUsers(s1.view, data.start_time,
                                           data.end_time, members, event_id)}

(* setattr(meeting, field_name, field_value) for every supplied field *)
ApplyPatch(meeting, upd_data) ==
    [f \in DOMAIN meeting |->
        IF f \in upd_data.fields THEN upd_data[f] ELSE meeting[f]]

(* meetings.status is declared nullable=False: the UPDATE that the commit  *)
(* flushes fails when the patch has set it to None                         *)
NotNullViolated(meeting) == meeting.status = "None"

MeetingServiceUpdateAlwaysCommit(db, meeting_id, upd_data) ==
    LET s0 == UowEnter(db)
    IN
    IF meeting_id \notin DOMAIN s0.view.meetings
    THEN {Outcome(s0, "MeetingNotFound", Null, Null, 0, FALSE)}
    ELSE
      LET meeting == ApplyPatch(s0.view.meetings[meeting_id], upd_data)
          s1 == [s0 EXCEPT !.view.meetings[meeting_id] = meeting]
      IN  IF NotNullViolated(meeting)
          THEN {Outcome(s1, "IntegrityError", Null, Null, 1, TRUE)}
          ELSE {Outcome(UowCommit(s1), "ok", Null, Null, 1, TRUE)}

MeetingServiceUpdate(db, meeting_id, upd_data) ==
    LET s0 == UowEnter(db)
    IN
    IF meeting_id \notin DOMAIN s0.view.meetings
    THEN {Outcome(s0, "MeetingNotFound", Null, Null, 0, FALSE)}
    ELSE
      LET meeting == ApplyPatch(s0.view.meetings[meeting_id], upd_data)
          s1 == [s0 EXCEPT !.view.meetings[meeting_id] = meeting]
      IN  IF upd_data.fields # {}
          THEN IF NotNullViolated(meeting)
               THEN {Outcome(s1, "IntegrityError", Null, Null, 1, TRUE)}
               ELSE {Outcome(UowCommit(s1), "ok", Null, Null, 1, TRUE)}
          ELSE {Outcome(s1, "ok", Null, Null, 0, FALSE)}

MeetingServiceDeactivateToggle(db, meeting_id) ==
    LET s0 == UowEnter(db)
    IN
    IF meeting_id \notin DOMAIN s0.view.meetings
    THEN {Outcome(s0, "MeetingNotFound", Null, Null, 0, FALSE)}
    ELSE LET s1 == [s0 EXCEPT !.view.meetings[meeting_id].is_active = ~@]
         IN  {Outcome(UowCommit(s1), "ok", Null, Null, 1, TRUE)}

MeetingServiceDeactivateWithEvent(db, meeting_id) ==
    LET s0 == UowEnter(db)
    IN
    IF meeting_id \notin DOMAIN s0.view.meetings
    THEN {Outcome(s0, "MeetingNotFound", Null, Null, 0, FALSE)}
    ELSE IF s0.view.meetings[meeting_id].is_active
    THEN LET event_id == s0.view.meetings[meeting_id].calendar_event_id
             s1 == [s0 EXCEPT !.view.meetings[meeting_id].is_active = FALSE,
                              !.view.events[event_id].is_active = FALSE]
         IN  {Outcome(UowCommit(s1), "ok", Null, Null, 1, TRUE)}
    ELSE {Outcome(s0, "ok", Null, Null, 0, FALSE)}

MeetingServiceDeactivate(db, meeting_id) ==
    LET s0 == UowEnter(db)
    IN
    IF meeting_id \notin DOMAIN s0.view.meetings
    THEN {Outcome(s0, "MeetingNotFound", Null, Null, 0, FALSE)}
    ELSE IF s0.view.meetings[meeting_id].is_active
    THEN LET s1 == [s0 EXCEPT !.view.meetings[meeting_id].is_active = FALSE]
         IN  {Outcome(UowCommit(s1), "ok", Null, Null, 1, TRUE)}
    ELSE {Outcome(s0, "ok", Null, Null, 0, FALSE)}

MeetingServiceIncludeUsersAllIds(db, meeting_id, user_ids) ==
    LET s0 == UowEnter(db)
    IN
    IF meeting_id \notin DOMAIN s0.view.meetings
    THEN {Outcome(s0, "MeetingNotFound",
                  Null, Null, 0, FALSE)}
    ELSE
      LET meeting == s0.view.meetings[meeting_id]
          event_id == meeting.calendar_event_id
          existing_ids == meeting.members
          uq_new_ids == SeqToSet(user_ids) \ existing_ids
      IN
      IF uq_new_ids = {}
      THEN {Outcome(s0, "ok", Null, Null, 0, FALSE)}
      ELSE
        {IF overlap # Null
         THEN Outcome(s0, "OverlapError",
                      event_id, overlap, 0, FALSE)
         ELSE IF ~UserShareCommandId(uq_new_ids, meeting.command_id)
         THEN Outcome(s0, "ValueError", Null, Null, 0, FALSE)
         ELSE IF UsersInSeqRaises(uq_new_ids)
         THEN Outcome(s0, "ValueError", Null, Null, 0, FALSE)
         ELSE
           LET new_members == UsersInSeq(uq_new_ids)
               pair == AddMembers([meeting |-> meeting,
                                   event |-> s0.view.events[event_id]],
                                  new_members)
               s1 == MeetingsAdd(s0, meeting_id, pair)
           IN  IF insert = "ok"
               THEN Outcome(UowCommit(s1), "ok", Null, Null, 1, TRUE)
               ELSE Outcome(s1, insert, Null, Null, 1, TRUE) :
           overlap \in CheckOverlapUsers(s0.view, meeting.start_time,
                                         meeting.end_time, SeqToSet(user_ids),
                                         event_id),
           insert \in UsersCalendarEventsInsert(s0.view.events[event_id].users,
                                                uq_new_ids)}

MeetingServiceIncludeUsers(db, meeting_id, user_ids) ==
    LET s0 == UowEnter(db)
    IN
    IF meeting_id \notin DOMAIN s0.view.meetings
    THEN {Outcome(s0, "MeetingNotFound",
                  Null, Null, 0, FALSE)}
    ELSE
      LET meeting == s0.view.meetings[meeting_id]
          event_id == meeting.calendar_event_id
          existing_ids == meeting.members
          uq_new_ids == SeqToSet(user_ids) \ existing_ids
      IN
      IF uq_new_ids = {}
      THEN {Outcome(s0, "ok", Null, Null, 0, FALSE)}
      ELSE
        {IF overlap # Null
         THEN Outcome(s0, "OverlapError",
                      event_id, overlap, 0, FALSE)
         ELSE IF ~UserShareCommandId(uq_new_ids, meeting.command_id)
         THEN Outcome(s0, "ValueError", Null, Null, 0, FALSE)
         ELSE IF UsersInSeqRaises(uq_new_ids)
         THEN Outcome(s0, "ValueError", Null, Null, 0, FALSE)
         ELSE
           LET new_members == UsersInSeq(uq_new_ids)
               pair == AddMembers([meeting |-> meeting,
                                   event |-> s0.view.events[event_id]],
                                  new_members)
               s1 == MeetingsAdd(s0, meeting_id, pair)
           IN  IF insert = "ok"
               THEN Outcome(UowCommit(s1), "ok", Null, Null, 1, TRUE)
               ELSE Outcome(s1, insert, Null, Null, 1, TRUE) :
           overlap \in CheckOverlapUsers(s0.view, meeting.start_time,
                                         meeting.end_time, uq_new_ids,
                                         event_id),
           insert \in UsersCalendarEventsInsert(s0.view.events[event_id].users,
                                                uq_new_ids)}

-----------------------------------------------------------------------------
(* CalendarEventService *)

CalendarEventServiceCreateEvent(db, data) ==
    LET s0 == UowEnter(db)
        new_event == CalendarEventInit(data.start_time, data.end_time,
                                       data.event_type)
        s1 == EventsAdd(s0, NewEventId(s0.view), new_event)
    IN  {Outcome(UowCommit(s1), "ok", Null, Null, 1, TRUE)}

CalendarEventServiceIncludeUser(db, user_id, event_id) ==
    LET s0 == UowEnter(db)
    IN
    IF ~PartnerGetById(user_id)
    THEN {Outcome(s0, "UserNotFound", Null, Null, 0, FALSE)}
    ELSE IF event_id \notin DOMAIN s0.view.events
    THEN {Outcome(s0, "CalendarEventNotFound",
                  Null, Null, 0, FALSE)}
    ELSE
      LET event == s0.view.events[event_id]
          s1 == [s0 EXCEPT !.view.events[event_id].users = @ \cup {user_id}]
      IN  {IF overlap # Null
           THEN Outcome(s0, "OverlapError",
                        event_id, overlap, 0, FALSE)
           ELSE IF insert = "ok"
           THEN Outcome(UowCommit(s1), "ok", Null, Null, 1, TRUE)
           ELSE Outcome(s1, insert, Null, Null, 1, TRUE) :
             overlap \in CheckOverlapUsers(s0.view, event.start_time,
                                           event.end_time, {user_id},
                                           event_id),
             insert \in UsersCalendarEventsInsert(event.users, {user_id})}

-----------------------------------------------------------------------------
(* BaseSAUnitOfWork as an object of its own.  A coordinator c has          *)
(*   kind      "factory" (built with a session_factory) or "external"      *)
(*             (built with a session of the caller),                       *)
(*   session   whether self._session is set,                               *)
(*   scope     whether control is inside `async with`,                     *)
(*   view      the rows the session sees (committed rows plus its own      *)
(*             flushed writes), NoDB while there is no session,            *)
(*   committed the committed database,                                     *)
(*   raised    the exception the last call on the coordinator, or the      *)
(*             last `async with` block, raised to its caller ("none" for   *)
(*             a normal return).                                           *)

NoDB == [events |-> <<>>, meetings |-> <<>>]

UowKinds == {"factory", "external"}

(* __init__ with exactly one of session_factory and session *)
CoordInit(kind, db) ==
    [kind |-> kind, session |-> (kind = "external"), scope |-> FALSE,
     view |-> IF kind = "external" THEN db ELSE NoDB,
     committed |-> db, raised |-> "none"]

CoordAenter(c) ==
    IF c.kind = "factory"
    THEN [c EXCEPT !.session = TRUE, !.view = c.committed,
                   !.scope = TRUE, !.raised = "none"]
    ELSE [c EXCEPT !.scope = TRUE, !.raised = "none"]

(* self._session.rollback() *)
SessionRollback(c) ==
    [c EXCEPT !.view = UowRollback(c).view,
              !.committed = UowRollback(c).committed]

CoordRollback(c) ==
    IF ~c.session
    THEN [c EXCEPT !.raised = "RuntimeError"]
    ELSE [SessionRollback(c) EXCEPT !.raised = "none"]

CoordCommitNoRollback(c, fails) ==
    IF ~c.session
    THEN [c EXCEPT !.raised = "RuntimeError"]
    ELSE IF fails
    THEN [c EXCEPT !.raised = "CommitError"]
    ELSE [c EXCEPT !.committed = UowCommit(c).committed, !.raised = "none"]

(* `fails`: whether self._session.commit() raises *)
CoordCommit(c, fails) ==
    IF ~c.session
    THEN [c EXCEPT !.raised = "RuntimeError"]
    ELSE IF fails
    THEN [CoordRollback(c) EXCEPT !.raised = "CommitError"]
    ELSE [c EXCEPT !.committed = UowCommit(c).committed, !.raised = "none"]

(* `fails`: whether self._session.refresh() raises *)
CoordRefresh(c, fails) ==
    IF ~c.session
    THEN [c EXCEPT !.raised = "RuntimeError"]
    ELSE IF fails
    THEN [CoordRollback(c) EXCEPT !.raised = "RefreshError"]
    ELSE [c EXCEPT !.raised = "none"]

(* the writes of the model are flushed when they are made *)
CoordFlush(c) ==
    IF ~c.session
    THEN [c EXCEPT !.raised = "RuntimeError"]
    ELSE [c EXCEPT !.raised = "none"]

CoordAexitNoRollback(c, exc) ==
    IF ~c.session
    THEN [c EXCEPT !.scope = FALSE, !.raised = exc]
    ELSE [c EXCEPT !.session = (c.kind # "factory"),
                   !.view = IF c.kind = "factory" THEN NoDB ELSE c.view,
                   !.scope = FALSE, !.raised = exc]

(* __aexit__ returns None, so the exception `exc` of the block ("none"     *)
(* when the block ended normally) goes on to the caller; a session made    *)
(* by the factory is closed, an external one is left as it is.             *)
CoordAexit(c, exc) ==
    IF ~c.session
    THEN [c EXCEPT !.scope = FALSE, !.raised = exc]
    ELSE LET r == IF exc # "none" THEN CoordRollback(c) ELSE c
         IN  [r EXCEPT !.session = (c.kind # "factory"),
                       !.view = IF c.kind = "factory" THEN NoDB ELSE r.view,
                       !.scope = FALSE, !.raised = exc]

(* a repository's add: session.add and flush *)
CoordWrite(c, event) ==
    [EventsAdd(c, NewEventId(c.view), event) EXCEPT !.raised = "none"]

(* the coordinator without the committed database, which is kept in the   *)
(* variables events and meetings                                           *)
Strip(c) ==
    [kind |-> c.kind, session |-> c.session, scope |-> c.scope,
     view |-> c.view, raised |-> c.raised]

UowIdle == Strip(CoordInit("factory", NoDB))

-----------------------------------------------------------------------------
(* SATaskRepo: average grades.  A task row has the columns assignee_id,    *)
(* grade (the name of a TaskGrade member, or "None") and due_date (a       *)
(* timestamp, counted in ticks of which TicksPerDay make a day).  A        *)
(* Decimal result is held as the integer number of 10^-RoundDigits units;  *)
(* a query result is the empty set for None and {v} for a value.  The      *)
(* averages are computed exactly, as fractions.                            *)

MaxTasks == 3
TicksPerDay == 2
RoundDigits == 4

Scale == 10 ^ RoundDigits

TaskGrade ==
    [FAILED |-> 0, DONE_DEADLINE_OUT |-> 1, DONE_DEADLINE |-> 2,
     DONE_INITIATIVE |-> 3]

GradeColumn == DOMAIN TaskGrade \cup {"None"}

(* func.date(Task.due_date) *)
DateOf(ts) == ts \div TicksPerDay

(* CASE over cast(Task.grade, String) with the mapping name -> value and   *)
(* ELSE NULL                                                               *)
IntGradeExpression(grade) ==
    IF grade \in DOMAIN TaskGrade THEN {TaskGrade[grade]} ELSE {}

(* func.round(x, 4) of the non-negative fraction num / den *)
Round(num, den) == (2 * Scale * num + den) \div (2 * den)

RECURSIVE SumGrades(_, _)
SumGrades(tasks, rows) ==
    IF rows = {} THEN 0
    ELSE LET i == CHOOSE i \in rows : TRUE
         IN  (CHOOSE g \in IntGradeExpression(tasks[i].grade) : TRUE)
             + SumGrades(tasks, rows \ {i})

(* func.avg skips NULL: the fraction <<num, den>>, or <<>> for NULL *)
Avg(tasks, rows) ==
    LET vals == {i \in rows : IntGradeExpression(tasks[i].grade) # {}}
    IN  IF vals = {} THEN <<>>
        ELSE <<SumGrades(tasks, vals), Cardinality(vals)>>

PeriodRowsByTimestamp(tasks, assignee_id, start_date, end_date) ==
    {i \in DOMAIN tasks :
        /\ tasks[i].assignee_id = assignee_id
        /\ tasks[i].due_date >= start_date * TicksPerDay
        /\ tasks[i].due_date <= end_date * TicksPerDay
        /\ tasks[i].grade # "None"}

(* the WHERE clause of get_avg_grade_period *)
PeriodRows(tasks, assignee_id, start_date, end_date) ==
    {i \in DOMAIN tasks :
        /\ tasks[i].assignee_id = assignee_id
        /\ DateOf(tasks[i].due_date) >= start_date
        /\ DateOf(tasks[i].due_date) <= end_date
        /\ tasks[i].grade # "None"}

GetAvgGradePeriod(tasks, assignee_id, start_date, end_date) ==
    LET avg == Avg(tasks, PeriodRows(tasks, assignee_id, start_date,
                                     end_date))
    IN  IF avg = <<>> THEN {} ELSE {Round(avg[1], avg[2])}

(* the join and WHERE clause of get_avg_grade_period_command *)
CommandRows(tasks, command_id, start_date, end_date) ==
    {i \in DOMAIN tasks :
        /\ tasks[i].assignee_id \in DOMAIN UserTbl
        /\ UserTbl[tasks[i].assignee_id].command_id = command_id
        /\ DateOf(tasks[i].due_date) >= start_date
        /\ DateOf(tasks[i].due_date) <= end_date
        /\ tasks[i].grade # "None"}

(* the subquery: one row user_avg_grade per Task.assignee_id *)
UserAvgGrades(tasks, rows) ==
    LET groups == {tasks[i].assignee_id : i \in rows}
    IN  [u \in groups |->
            Avg(tasks, {i \in rows : tasks[i].assignee_id = u})]

RECURSIVE ProdDen(_, _)
ProdDen(avgs, us) ==
    IF us = {} THEN 1
    ELSE LET u == CHOOSE u \in us : TRUE
         IN  avgs[u][2] * ProdDen(avgs, us \ {u})

RECURSIVE SumFractions(_, _, _)
SumFractions(avgs, us, den) ==
    IF us = {} THEN 0
    ELSE LET u == CHOOSE u \in us : TRUE
         IN  avgs[u][1] * (den \div avgs[u][2])
             + SumFractions(avgs, us \ {u}, den)

GetAvgGradePeriodCommandFlat(tasks, command_id, start_date, end_date) ==
    LET avg == Avg(tasks, CommandRows(tasks, command_id, start_date,
                                      end_date))
    IN  IF avg = <<>> THEN {} ELSE {Round(avg[1], avg[2])}

GetAvgGradePeriodCommand(tasks, command_id, start_date, end_date) ==
    LET avgs == UserAvgGrades(tasks, CommandRows(tasks, command_id,
                                                 start_date, end_date))
        us == {u \in DOMAIN avgs : avgs[u] # <<>>}
        den == ProdDen(avgs, us)
    IN  IF us = {} THEN {}
        ELSE {Round(SumFractions(avgs, us, den), den * Cardinality(us))}

(* no query in progress *)
GradeIdle ==
    [tasks |-> <<>>, op |-> "none", who |-> "none", start_date |-> 0,
     end_date |-> 0, done |-> FALSE, result |-> {}]

-----------------------------------------------------------------------------
(* Requests *)

(* MeetingCreate: no ordering of start_time and end_time is validated *)
MeetingCreateInputs ==
    [status : {"None"}, start_time : Times, end_time : Times,
     creator_id : {"u0", "u1"}, command_id : CommandIds,
     members_ids : IdLists]

(* MeetingUpdate dumped with exclude_unset: `fields` are the keys of the   *)
(* dump, the other components the values supplied for them.  The requests  *)
(* of this specification reschedule the start of the meeting.              *)
UpdStartTimes == {1}

MeetingUpdateInputs ==
    [fields : SUBSET {"start_time"}, start_time : UpdStartTimes]

(* CalendarEventCreate.check_dates_order rejects end_time < start_time *)
CalendarEventCreateInputs ==
    {d \in [start_time : Times, end_time : Times,
             event_type : {"general"}] :
        ~(d.end_time < d.start_time)}

MeetingIds == 1..(MaxMeetings + 1)
EventIds == 1..(MaxEvents + 1)

-----------------------------------------------------------------------------
(* The state machine: one action per service method *)

Apply(r) ==
    /\ events' = r.db.events
    /\ meetings' = r.db.meetings
    /\ UNCHANGED <<share_call, uow, race, grade_call, comments>>

Init ==
    /\ events = <<>>
    /\ meetings = <<>>
    /\ comments = <<>>
    /\ share_call = [user_ids |-> <<>>, target_command_id |-> "c0",
                     done |-> FALSE, result |-> FALSE]
    /\ uow = UowIdle
    /\ race = <<>>
    /\ grade_call = GradeIdle

(* the tables of the model hold at most MaxEvents and MaxMeetings rows *)
CreateEnabled ==
    /\ Cardinality(DOMAIN events) < MaxEvents
    /\ Cardinality(DOMAIN meetings) < MaxMeetings

CreateMeeting ==
    /\ CreateEnabled
    /\ \E data \in MeetingCreateInputs :
         \E r \in MeetingServiceCreate(DB, data) : Apply(r)

UpdateMeeting ==
    \E meeting_id \in MeetingIds, upd_data \in MeetingUpdateInputs :
       \E r \in MeetingServiceUpdate(DB, meeting_id, upd_data) : Apply(r)

DeactivateMeeting ==
    \E meeting_id \in MeetingIds :
       \E r \in MeetingServiceDeactivate(DB, meeting_id) : Apply(r)

IncludeUsers ==
    \E meeting_id \in MeetingIds, user_ids \in IdLists :
       \E r \in MeetingServiceIncludeUsers(DB, meeting_id, user_ids) :
          Apply(r)

CreateEvent ==
    /\ Cardinality(DOMAIN events) < MaxEvents
    /\ \E data \in CalendarEventCreateInputs :
         \E r \in CalendarEventServiceCreateEvent(DB, data) : Apply(r)

IncludeUser ==
    \E user_id \in UserIds, event_id \in EventIds :
       \E r \in CalendarEventServiceIncludeUser(DB, user_id, event_id) :
          Apply(r)

Next ==
    \/ CreateMeeting
    \/ UpdateMeeting
    \/ DeactivateMeeting
    \/ IncludeUsers
    \/ CreateEvent
    \/ IncludeUser

Spec == Init /\ [][Next]_vars

-----------------------------------------------------------------------------
(* SAPartnerRepo.user_share_command_id on its own: the arguments are drawn *)
(* in the initial state and one action applies the query.                  *)

ShareInit ==
    /\ events = <<>>
    /\ meetings = <<>>
    /\ comments = <<>>
    /\ share_call \in [user_ids : IdLists, target_command_id : CommandIds,
                       done : {FALSE}, result : {FALSE}]
    /\ uow = UowIdle
    /\ race = <<>>
    /\ grade_call = GradeIdle

ShareApply ==
    /\ ~share_call.done
    /\ share_call' =
         [share_call EXCEPT
            !.done = TRUE,
            !.result = UserShareCommandId(SeqToSet(share_call.user_ids),
                                          share_call.target_command_id)]
    /\ UNCHANGED <<events, meetings, uow, race, grade_call, comments>>

ShareNext == ShareApply

SpecShare == ShareInit /\ [][ShareNext]_vars

-----------------------------------------------------------------------------
(* One coordinator used by arbitrary client code: blocks are entered and   *)
(* left, with or without an exception, rows are written, and commit,       *)
(* refresh, rollback and flush are called inside and outside the blocks.   *)

Cur ==
    [kind |-> uow.kind, session |-> uow.session, scope |-> uow.scope,
     view |-> uow.view, committed |-> DB, raised |-> uow.raised]

CoordApply(c) ==
    /\ events' = c.committed.events
    /\ meetings' = c.committed.meetings
    /\ uow' = Strip(c)
    /\ UNCHANGED <<share_call, race, grade_call, comments>>

(* what a block can raise: an error of its own, or the error of the last   *)
(* coordinator call that it does not handle                                *)
BlockExceptions == {"none", "DomainError", uow.raised}

UowInit ==
    /\ events = <<>>
    /\ meetings = <<>>
    /\ comments = <<>>
    /\ share_call = [user_ids |-> <<>>, target_command_id |-> "c0",
                     done |-> FALSE, result |-> FALSE]
    /\ \E kind \in UowKinds : uow = Strip(CoordInit(kind, NoDB))
    /\ race = <<>>
    /\ grade_call = GradeIdle

Aenter ==
    /\ ~uow.scope
    /\ CoordApply(CoordAenter(Cur))

Aexit ==
    /\ uow.scope
    /\ \E exc \in BlockExceptions : CoordApply(CoordAexit(Cur, exc))

Write ==
    /\ uow.session
    /\ Cardinality(DOMAIN uow.view.events) < MaxEvents
    /\ \E d \in CalendarEventCreateInputs :
          CoordApply(CoordWrite(Cur, CalendarEventInit(d.start_time,
                                                       d.end_time,
                                                       d.event_type)))

Commit == \E fails \in BOOLEAN : CoordApply(CoordCommit(Cur, fails))

Refresh == \E fails \in BOOLEAN : CoordApply(CoordRefresh(Cur, fails))

Rollback == CoordApply(CoordRollback(Cur))

Flush == CoordApply(CoordFlush(Cur))

UowNext ==
    \/ Aenter
    \/ Aexit
    \/ Write
    \/ Commit
    \/ Refresh
    \/ Rollback
    \/ Flush

SpecUow == UowInit /\ [][UowNext]_vars

-----------------------------------------------------------------------------
(* Two MeetingService.create requests served at the same time, each in a   *)
(* unit of work and a session of its own.  The engine is created with the  *)
(* default isolation level (read committed): a statement of a session sees *)
(* the rows committed when it runs and the session's own flushed rows.     *)
(* A request is at "start", at "flushed" (validated, meeting and event     *)
(* flushed), at "checked" (the overlap check found nothing), "done"        *)
(* (committed) or "failed" (the exception err left the scope).  The        *)
(* request of process p gets the fresh ids p.                              *)

Procs == {1, 2}

RaceInputs ==
    {d \in MeetingCreateInputs :
        /\ d.creator_id = "u1"
        /\ d.command_id = "c1"
        /\ SeqToSet(d.members_ids) \subseteq {"u1", "u2"}}

(* the checks of create that precede the flush *)
CreateValidation(data) ==
    IF ~PartnerGetById(data.creator_id) THEN "UserNotFound"
    ELSE IF ~GetCommandById(data.command_id) THEN "CommandNotFound"
    ELSE IF ~UserShareCommandId(SeqToSet(data.members_ids), data.command_id)
    THEN "ValueError"
    ELSE IF UsersInSeqRaises(SeqToSet(data.members_ids)) THEN "ValueError"
    ELSE "ok"

RaceMembers(p) == UsersInSeq(SeqToSet(race[p].data.members_ids))

RacePair(p) == MeetingInit(race[p].data, RaceMembers(p), p)

(* the session of p once its meeting is flushed *)
RaceSession(p) == MeetingsAdd(UowEnter(DB), p, RacePair(p))

RaceOthersFlushed(p) ==
    {q \in Procs \ {p} : race[q].pc \in {"flushed", "checked"}}

RaceViewReadUncommitted(p) ==
    [events |->
        [x \in DOMAIN RaceSession(p).view.events \cup RaceOthersFlushed(p) |->
            IF x \in RaceOthersFlushed(p) THEN RacePair(x).event
            ELSE RaceSession(p).view.events[x]],
     meetings |-> RaceSession(p).view.meetings]

(* the rows the statements of p's session see *)
RaceView(p) == RaceSession(p).view

RaceCheck(p) ==
    CheckOverlapUsers(RaceView(p), race[p].data.start_time,
                      race[p].data.end_time, RaceMembers(p), p)

RaceInit ==
    /\ events = <<>>
    /\ meetings = <<>>
    /\ comments = <<>>
    /\ share_call = [user_ids |-> <<>>, target_command_id |-> "c0",
                     done |-> FALSE, result |-> FALSE]
    /\ uow = UowIdle
    /\ race \in [Procs -> [pc : {"start"}, data : RaceInputs, err : {"ok"}]]
    /\ grade_call = GradeIdle

(* meeting.py 39-58 *)
RaceBegin ==
    \E p \in Procs :
       /\ race[p].pc = "start"
       /\ race' = [race EXCEPT
                     ![p].pc = IF CreateValidation(race[p].data) = "ok"
                               THEN "flushed" ELSE "failed",
                     ![p].err = CreateValidation(race[p].data)]
       /\ UNCHANGED <<events, meetings, share_call, uow, grade_call, comments>>

(* meeting.py 60-67 *)
RaceCheckOverlap ==
    \E p \in Procs :
       /\ race[p].pc = "flushed"
       /\ \E overlap \in RaceCheck(p) :
             race' = [race EXCEPT
                        ![p].pc = IF overlap # Null THEN "failed"
                                  ELSE "checked",
                        ![p].err = IF overlap # Null THEN "OverlapError"
                                   ELSE "ok"]
       /\ UNCHANGED <<events, meetings, share_call, uow, grade_call, comments>>

(* meeting.py 69 *)
RaceCommit ==
    \E p \in Procs :
       /\ race[p].pc = "checked"
       /\ events' = UowCommit(RaceSession(p)).committed.events
       /\ meetings' = UowCommit(RaceSession(p)).committed.meetings
       /\ race' = [race EXCEPT ![p].pc = "done"]
       /\ UNCHANGED <<share_call, uow, grade_call, comments>>

RaceNext ==
    \/ RaceBegin
    \/ RaceCheckOverlap
    \/ RaceCommit

SpecRace == RaceInit /\ [][RaceNext]_vars

-----------------------------------------------------------------------------
(* The average-grade queries on their own: the tasks table and the         *)
(* arguments are drawn in the initial state and one action applies the     *)
(* query.  Period.check_dates_order rejects end < start.                   *)

Dates == {0, 1}

TaskRows ==
    [assignee_id : DOMAIN UserTbl, grade : GradeColumn,
     due_date : {1, TicksPerDay}]

TaskTables == UNION {[1..n -> TaskRows] : n \in 0..MaxTasks}

GradeInit ==
    /\ events = <<>>
    /\ meetings = <<>>
    /\ comments = <<>>
    /\ share_call = [user_ids |-> <<>>, target_command_id |-> "c0",
                     done |-> FALSE, result |-> FALSE]
    /\ uow = UowIdle
    /\ race = <<>>
    /\ \E tasks \in TaskTables, start_date \in Dates, end_date \in Dates :
          /\ ~(end_date < start_date)
          /\ \/ \E u \in DOMAIN UserTbl :
                   grade_call = [tasks |-> tasks, op |-> "user", who |-> u,
                                 start_date |-> start_date,
                                 end_date |-> end_date,
                                 done |-> FALSE, result |-> {}]
             \/ \E c \in Commands :
                   grade_call = [tasks |-> tasks, op |-> "command",
                                 who |-> c, start_date |-> start_date,
                                 end_date |-> end_date,
                                 done |-> FALSE, result |-> {}]

AvgGradePeriod ==
    /\ grade_call.op = "user"
    /\ ~grade_call.done
    /\ grade_call' =
         [grade_call EXCEPT
            !.done = TRUE,
            !.result = GetAvgGradePeriod(grade_call.tasks, grade_call.who,
                                         grade_call.start_date,
                                         grade_call.end_date)]
    /\ UNCHANGED <<events, meetings, share_call, uow, race, comments>>

AvgGradePeriodCommand ==
    /\ grade_call.op = "command"
    /\ ~grade_call.done
    /\ grade_call' =
         [grade_call EXCEPT
            !.done = TRUE,
            !.result = GetAvgGradePeriodCommand(grade_call.tasks,
                                                grade_call.who,
                                                grade_call.start_date,
                                                grade_call.end_date)]
    /\ UNCHANGED <<events, meetings, share_call, uow, race, comments>>

GradeNext ==
    \/ AvgGradePeriod
    \/ AvgGradePeriodCommand

SpecGrade == GradeInit /\ [][GradeNext]_vars

-----------------------------------------------------------------------------
(* MeetingService.update with every patch of status, start_time and        *)
(* end_time, on up to MaxUpdMeetings meetings of one user.  A field that   *)
(* a patch does not supply holds a fixed value in the record, which the    *)
(* handler does not read.  A patch may supply the status None, which       *)
(* MeetingUpdate accepts.                                                  *)

MaxUpdMeetings == 2

UpdCreateInputs ==
    {d \in MeetingCreateInputs :
        /\ d.creator_id = "u1"
        /\ d.command_id = "c1"
        /\ d.members_ids = <<"u1">>
        /\ d.start_time < d.end_time}

PatchFields == {"status", "start_time", "end_time"}

MeetingPatches ==
    {p \in [fields : SUBSET PatchFields,
            status : MeetingStatus \cup {"None"},
            start_time : Times, end_time : Times] :
        /\ "status" \notin p.fields => p.status = "None"
        /\ "start_time" \notin p.fields => p.start_time = 0
        /\ "end_time" \notin p.fields => p.end_time = 0}

UpdCreateMeeting ==
    /\ Cardinality(DOMAIN meetings) < MaxUpdMeetings
    /\ \E data \in UpdCreateInputs :
         \E r \in MeetingServiceCreate(DB, data) : Apply(r)

UpdUpdateMeeting ==
    \E meeting_id \in 1..(MaxUpdMeetings + 1), upd_data \in MeetingPatches :
       \E r \in MeetingServiceUpdate(DB, meeting_id, upd_data) : Apply(r)

UpdDeactivateMeeting ==
    \E meeting_id \in 1..(MaxUpdMeetings + 1) :
       \E r \in MeetingServiceDeactivate(DB, meeting_id) : Apply(r)

UpdNext ==
    \/ UpdCreateMeeting
    \/ UpdUpdateMeeting
    \/ UpdDeactivateMeeting

SpecUpdate == Init /\ [][UpdNext]_vars

-----------------------------------------------------------------------------
(* The overlap query and its three callers on calendar_events rows that    *)
(* are drawn in the initial state.  is_active is a column of the table     *)
(* that no service of app_team writes (a new row gets the default TRUE);   *)
(* rows with is_active = FALSE are the soft-deleted rows the column is     *)
(* there for.  The rows drawn are general events with end_time >=          *)
(* start_time, as create_event makes them, with or without the user u1.    *)

QueryEventRows ==
    {e \in [start_time : Times, end_time : Times,
            event_type : {"general"}, is_active : BOOLEAN,
            users : SUBSET {"u1"}] :
        ~(e.end_time < e.start_time)}

QueryTables == UNION {[1..n -> QueryEventRows] : n \in 0..MaxEvents}

QueryInit ==
    /\ events \in QueryTables
    /\ meetings = <<>>
    /\ comments = <<>>
    /\ share_call = [user_ids |-> <<>>, target_command_id |-> "c0",
                     done |-> FALSE, result |-> FALSE]
    /\ uow = UowIdle
    /\ race = <<>>
    /\ grade_call = GradeIdle

QueryNext ==
    \/ CreateMeeting
    \/ IncludeUsers
    \/ IncludeUser

SpecQuery == QueryInit /\ [][QueryNext]_vars

-----------------------------------------------------------------------------
(* TaskCommentService.  The tasks table is read-only here: t3 is a         *)
(* deactivated task and t0 an id that resolves to no row.  A comment row   *)
(* keeps task_id, commentator_id, parent_comment_id (Null for a top-level  *)
(* comment) and text.                                                      *)

MaxComments == 3

TaskIds == {"t0", "t1", "t2", "t3"}

TaskTbl ==
    [t \in {"t1", "t2", "t3"} |-> [is_active |-> t # "t3"]]

CommentIds == 1..(MaxComments + 1)
Texts == {"a", "b"}

(* TaskCommentCreate *)
TaskCommentCreateInputs ==
    [text : {"a"}, task_id : TaskIds, commentator_id : UserIds,
     parent_comment_id : CommentIds \cup {Null}]

(* TaskCommentUpdate dumped with exclude_unset: text is its only field *)
TaskCommentUpdateInputs ==
    [fields : SUBSET {"text"}, text : Texts]

TaskGetById(task_id) == task_id \in DOMAIN TaskTbl

TaskCommentGetById(rows, taskcomment_id) == taskcomment_id \in DOMAIN rows

NewCommentId(rows) == Cardinality(DOMAIN rows) + 1

(* TaskComment built from the dump of the TaskCommentCreate schema *)
TaskCommentInit(data) ==
    [task_id |-> data.task_id, commentator_id |-> data.commentator_id,
     parent_comment_id |-> data.parent_comment_id, text |-> data.text]

(* the outcome of a comment call: the committed rows, the exception        *)
(* raised ("ok" for a normal return) and the number of commits             *)
CommentOutcome(rows, err, commits) ==
    [rows |-> rows, err |-> err, commits |-> commits]

TaskCommentServiceCreateComment(rows, data) ==
    IF ~TaskGetById(data.task_id) \/ ~TaskTbl[data.task_id].is_active
    THEN {CommentOutcome(rows, "TaskNotFound", 0)}
    ELSE IF \/ ~PartnerGetById(data.commentator_id)
            \/ ~UserTbl[data.commentator_id].is_active
    THEN {CommentOutcome(rows, "UserNotFound", 0)}
    ELSE IF /\ data.parent_comment_id # Null
            /\ ~TaskCommentGetById(rows, data.parent_comment_id)
    THEN {CommentOutcome(rows, "TaskCommentNotFound", 0)}
    ELSE {CommentOutcome(Put(rows, NewCommentId(rows), TaskCommentInit(data)),
                         "ok", 1)}

TaskCommentServiceUpdateComment(rows, comment_id, data) ==
    IF ~TaskCommentGetById(rows, comment_id)
    THEN {CommentOutcome(rows, "TaskCommentNotFound", 0)}
    ELSE IF data.fields # {}
    THEN {CommentOutcome([rows EXCEPT ![comment_id].text = data.text],
                         "ok", 1)}
    ELSE {CommentOutcome(rows, "ok", 0)}

CommentApply(r) ==
    /\ comments' = r.rows
    /\ UNCHANGED <<events, meetings, share_call, uow, race, grade_call>>

CreateComment ==
    /\ Cardinality(DOMAIN comments) < MaxComments
    /\ \E data \in TaskCommentCreateInputs :
         \E r \in TaskCommentServiceCreateComment(comments, data) :
            CommentApply(r)

UpdateComment ==
    \E comment_id \in CommentIds, data \in TaskCommentUpdateInputs :
       \E r \in TaskCommentServiceUpdateComment(comments, comment_id, data) :
          CommentApply(r)

CommentNext ==
    \/ CreateComment
    \/ UpdateComment

SpecComment == Init /\ [][CommentNext]_vars

-----------------------------------------------------------------------------
(* Vocabulary of the properties *)

Max(a, b) == IF a > b THEN a ELSE b
Min(a, b) == IF a < b THEN a ELSE b

(* the half-open intervals [a.start_time, a.end_time) and                  *)
(* [b.start_time, b.end_time) have a common point                          *)
Intersect(a, b) ==
    Max(a.start_time, b.start_time) < Min(a.end_time, b.end_time)

(* the strict-inequality test of the overlap query, on two windows *)
Conflict(s1, e1, s2, e2) == s1 < e2 /\ e1 > s2

Errors(rs) == {r.err : r \in rs}

-----------------------------------------------------------------------------
(* C1: every two distinct active calendar events that share a participant  *)
(* have non-intersecting [start_time, end_time) intervals.                 *)
C1_NoOverlappingCommitments ==
    \A a, b \in DOMAIN events :
        (/\ a # b
         /\ events[a].is_active /\ events[b].is_active
         /\ events[a].users \cap events[b].users # {})
        => ~Intersect(events[a], events[b])

-----------------------------------------------------------------------------
(* C2: a MeetingService.create call that fails leaves the committed        *)
(* database exactly as it was: no new meeting row, no new calendar event   *)
(* row and no new membership row, also when the meeting and its event had  *)
(* already been flushed before the overlap check.                          *)
C2_FailedCreateLeavesNothing ==
    \A data \in MeetingCreateInputs :
        \A r \in MeetingServiceCreate(DB, data) :
            r.err # "ok" => r.db = DB

(* a create request is rejected for an overlap after its rows were flushed *)
C2_Witness ==
    CreateEnabled /\ \E data \in MeetingCreateInputs :
        \E r \in MeetingServiceCreate(DB, data) :
            r.err = "OverlapError" /\ r.flushed /\ r.db = DB

-----------------------------------------------------------------------------
(* C3: a successful MeetingService.create adds exactly one meeting and     *)
(* exactly one calendar event; the event has event_type MEETING, its       *)
(* start_time and end_time equal the meeting's (and the request's), and    *)
(* its participants equal the meeting's members, which equal the set of    *)
(* requested member ids.                                                   *)
C3_CreateYieldsOneMeetingEvent ==
    \A data \in MeetingCreateInputs :
        \A r \in MeetingServiceCreate(DB, data) :
            r.err = "ok" =>
              LET newE == DOMAIN r.db.events \ DOMAIN events
                  newM == DOMAIN r.db.meetings \ DOMAIN meetings
              IN  /\ Cardinality(newE) = 1
                  /\ Cardinality(newM) = 1
                  /\ \A e \in DOMAIN events : r.db.events[e] = events[e]
                  /\ \A m \in DOMAIN meetings : r.db.meetings[m] = meetings[m]
                  /\ \A e \in newE, m \in newM :
                       LET ev == r.db.events[e]
                           mt == r.db.meetings[m]
                       IN  /\ mt.calendar_event_id = e
                           /\ ev.event_type = "meeting"
                           /\ mt.start_time = data.start_time
                           /\ mt.end_time = data.end_time
                           /\ ev.start_time = mt.start_time
                           /\ ev.end_time = mt.end_time
                           /\ mt.members = SeqToSet(data.members_ids)
                           /\ ev.users = mt.members

(* a create request with two distinct members succeeds beside an event *)
C3_Witness ==
    /\ CreateEnabled
    /\ events # <<>>
    /\ \E data \in MeetingCreateInputs :
         \E r \in MeetingServiceCreate(DB, data) :
            /\ r.err = "ok"
            /\ Cardinality(SeqToSet(data.members_ids)) = 2

-----------------------------------------------------------------------------
(* C4: if an existing active event E, other than the excluded one, shares  *)
(* a user with the candidate participants and E.start_time < e and         *)
(* E.end_time > s for the candidate window [s, e), check_overlap_users     *)
(* returns the id of such an event, and create, include_users and          *)
(* include_user are rejected with OverlapError.                            *)
Conflicting(s, e, user_ids, event_id) ==
    {x \in DOMAIN events :
        /\ x # event_id
        /\ events[x].is_active
        /\ events[x].users \cap user_ids # {}
        /\ Conflict(events[x].start_time, events[x].end_time, s, e)}

C4_QueryReportsConflict ==
    \A s \in Times, e \in Times, user_ids \in SUBSET UserIds,
       event_id \in EventIds :
        Conflicting(s, e, user_ids, event_id) # {} =>
            \A ov \in CheckOverlapUsers(DB, s, e, user_ids, event_id) :
                /\ ov # Null
                /\ ov # event_id
                /\ events[ov].users \cap user_ids # {}
                /\ Conflict(events[ov].start_time, events[ov].end_time, s, e)

C4_CreateRejected ==
    \A data \in MeetingCreateInputs :
        (/\ PartnerGetById(data.creator_id)
         /\ GetCommandById(data.command_id)
         /\ UserShareCommandId(SeqToSet(data.members_ids), data.command_id)
         /\ Conflicting(data.start_time, data.end_time,
                        SeqToSet(data.members_ids), NewEventId(DB)) # {})
        => Errors(MeetingServiceCreate(DB, data)) = {"OverlapError"}

C4_IncludeUsersRejected ==
    \A m \in DOMAIN meetings, user_ids \in IdLists :
        Conflicting(meetings[m].start_time, meetings[m].end_time,
                    SeqToSet(user_ids) \ meetings[m].members,
                    meetings[m].calendar_event_id) # {}
        => Errors(MeetingServiceIncludeUsers(DB, m, user_ids))
              = {"OverlapError"}

C4_IncludeUserRejected ==
    \A u \in DOMAIN UserTbl, x \in DOMAIN events :
        Conflicting(events[x].start_time, events[x].end_time, {u}, x) # {}
        => Errors(CalendarEventServiceIncludeUser(DB, u, x))
              = {"OverlapError"}

C4_IntersectingWindowRejected ==
    /\ C4_QueryReportsConflict
    /\ C4_CreateRejected
    /\ C4_IncludeUsersRejected
    /\ C4_IncludeUserRejected

(* a state in which an include_users and an include_user request each     *)
(* meet an intersecting event of the user to be added                      *)
C4_Witness ==
    /\ \E m \in DOMAIN meetings, user_ids \in IdLists :
         "OverlapError" \in Errors(MeetingServiceIncludeUsers(DB, m, user_ids))
    /\ \E u \in DOMAIN UserTbl, x \in DOMAIN events :
         "OverlapError" \in Errors(CalendarEventServiceIncludeUser(DB, u, x))

-----------------------------------------------------------------------------
(* C5: when every existing event of the candidate participants (other than *)
(* the excluded event) touches the candidate window at an endpoint,        *)
(* check_overlap_users reports no conflict and the operation succeeds.     *)
(* The candidate participants of include_users and include_user are users  *)
(* who do not yet take part in the target event; adding a participant a    *)
(* second time is the case of C29.                                         *)
OnlyTouching(s, e, user_ids, event_id) ==
    \A x \in DOMAIN events :
        (x # event_id /\ events[x].users \cap user_ids # {})
        => (events[x].end_time = s \/ events[x].start_time = e)

C5_QueryReportsNone ==
    \A s \in Times, e \in Times, user_ids \in SUBSET UserIds,
       event_id \in EventIds :
        OnlyTouching(s, e, user_ids, event_id)
        => CheckOverlapUsers(DB, s, e, user_ids, event_id) = {Null}

C5_CreateAccepted ==
    \A data \in MeetingCreateInputs :
        (/\ PartnerGetById(data.creator_id)
         /\ GetCommandById(data.command_id)
         /\ UserShareCommandId(SeqToSet(data.members_ids), data.command_id)
         /\ OnlyTouching(data.start_time, data.end_time,
                         SeqToSet(data.members_ids), NewEventId(DB)))
        => \A r \in MeetingServiceCreate(DB, data) :
              /\ r.err = "ok"
              /\ r.commits = 1
              /\ NewMeetingId(DB) \in DOMAIN r.db.meetings

C5_IncludeUsersAccepted ==
    \A m \in DOMAIN meetings, user_ids \in IdLists :
        LET uq_new_ids == SeqToSet(user_ids) \ meetings[m].members
        IN  (/\ UserShareCommandId(uq_new_ids, meetings[m].command_id)
             /\ uq_new_ids \cap events[meetings[m].calendar_event_id].users
                   = {}
             /\ OnlyTouching(meetings[m].start_time, meetings[m].end_time,
                             uq_new_ids, meetings[m].calendar_event_id))
            => \A r \in MeetingServiceIncludeUsers(DB, m, user_ids) :
                  /\ r.err = "ok"
                  /\ uq_new_ids \subseteq r.db.meetings[m].members

C5_IncludeUserAccepted ==
    \A u \in DOMAIN UserTbl, x \in DOMAIN events :
        (/\ u \notin events[x].users
         /\ OnlyTouching(events[x].start_time, events[x].end_time, {u}, x))
        => \A r \in CalendarEventServiceIncludeUser(DB, u, x) :
              /\ r.err = "ok"
              /\ u \in r.db.events[x].users

C5_TouchingWindowsAccepted ==
    /\ C5_QueryReportsNone
    /\ C5_CreateAccepted
    /\ C5_IncludeUsersAccepted
    /\ C5_IncludeUserAccepted

(* a meeting over [s, e) with s < e is accepted although one of its        *)
(* members has a non-empty event that ends at s or starts at e             *)
C5_Witness ==
    \E data \in MeetingCreateInputs, x \in DOMAIN events :
        /\ CreateEnabled
        /\ data.start_time < data.end_time
        /\ events[x].start_time < events[x].end_time
        /\ events[x].users \cap SeqToSet(data.members_ids) # {}
        /\ OnlyTouching(data.start_time, data.end_time,
                        SeqToSet(data.members_ids), NewEventId(DB))
        /\ "ok" \in Errors(MeetingServiceCreate(DB, data))

-----------------------------------------------------------------------------
(* C6: include_users is idempotent: repeating a successful call changes    *)
(* neither the members nor the event's participants and commits nothing;   *)
(* a call whose ids are all members already (or an empty list) returns the *)
(* meeting without a commit and without a change.                          *)
C6_IncludeUsersIdempotent ==
    \A m \in MeetingIds, user_ids \in IdLists :
        \A r1 \in MeetingServiceIncludeUsers(DB, m, user_ids) :
            /\ r1.err = "ok" =>
                 \A r2 \in MeetingServiceIncludeUsers(r1.db, m, user_ids) :
                    /\ r2.err = "ok"
                    /\ r2.db = r1.db
                    /\ r2.commits = 0
            /\ (/\ m \in DOMAIN meetings
                /\ SeqToSet(user_ids) \subseteq meetings[m].members)
               => (r1.err = "ok" /\ r1.commits = 0 /\ r1.db = DB)

(* include_users of a member together with a new user commits the new one *)
C6_Witness ==
    \E m \in DOMAIN meetings, user_ids \in IdLists :
        \E r1 \in MeetingServiceIncludeUsers(DB, m, user_ids) :
            /\ r1.err = "ok"
            /\ r1.commits = 1
            /\ SeqToSet(user_ids) \cap meetings[m].members # {}
            /\ r1.db.meetings[m].members # meetings[m].members

-----------------------------------------------------------------------------
(* C7: in every committed state the members of each meeting are            *)
(* participants of the meeting's calendar event.                           *)
C7_MembersAreParticipants ==
    \A m \in DOMAIN meetings :
        /\ meetings[m].calendar_event_id \in DOMAIN events
        /\ meetings[m].members
              \subseteq events[meetings[m].calendar_event_id].users

(* a meeting of two members whose event has a further participant *)
C7_Witness ==
    \E m \in DOMAIN meetings :
        /\ Cardinality(meetings[m].members) = 2
        /\ events[meetings[m].calendar_event_id].users # meetings[m].members

-----------------------------------------------------------------------------
(* C8 as stated: user_share_command_id returns true iff the input is       *)
(* non-empty and every id in it resolves to an existing, active user whose *)
(* command is command_id.                                                  *)
C8_ShareIffActiveMembers ==
    share_call.done =>
        (share_call.result <=>
            /\ share_call.user_ids # <<>>
            /\ \A u \in SeqToSet(share_call.user_ids) :
                  /\ u \in DOMAIN UserTbl
                  /\ UserTbl[u].is_active
                  /\ UserTbl[u].command_id = share_call.target_command_id)

(* C8 amended: user_share_command_id returns true iff the input is         *)
(* non-empty and every distinct id in it resolves to an existing user,     *)
(* active or not, whose command is command_id; it returns false for an     *)
(* empty input and whenever one id is unknown or in another command.       *)
C8_ShareIffMembers ==
    share_call.done =>
        (share_call.result <=>
            /\ share_call.user_ids # <<>>
            /\ \A u \in SeqToSet(share_call.user_ids) :
                  /\ u \in DOMAIN UserTbl
                  /\ UserTbl[u].command_id = share_call.target_command_id)

(* the query answered true for a list that names the deactivated user *)
C8_Witness ==
    /\ share_call.done
    /\ share_call.result
    /\ \E u \in SeqToSet(share_call.user_ids) : ~UserTbl[u].is_active

-----------------------------------------------------------------------------
(* C9 as stated: MeetingService.create with an empty member list, or with  *)
(* a member that does not belong to the target command, fails with         *)
(* ValueError, persists nothing and reaches neither the overlap check nor  *)
(* the commit.                                                             *)
BadMembers(data) ==
    \/ data.members_ids = <<>>
    \/ \E u \in SeqToSet(data.members_ids) :
          \/ u \notin DOMAIN UserTbl
          \/ UserTbl[u].command_id # data.command_id

C9_BadMembersValueError ==
    \A data \in MeetingCreateInputs :
        BadMembers(data) =>
            \A r \in MeetingServiceCreate(DB, data) :
                /\ r.err = "ValueError"
                /\ r.db = DB
                /\ ~r.flushed
                /\ r.commits = 0

(* C9 amended: such a call persists nothing and reaches neither the        *)
(* overlap check nor the commit; it fails with ValueError when the creator *)
(* and the command exist, with UserNotFound when the creator is missing,   *)
(* and with CommandNotFound when the creator exists and the command is     *)
(* missing.                                                                *)
C9_BadMembersRejected ==
    \A data \in MeetingCreateInputs :
        BadMembers(data) =>
            \A r \in MeetingServiceCreate(DB, data) :
                /\ r.err = IF ~PartnerGetById(data.creator_id)
                           THEN "UserNotFound"
                           ELSE IF ~GetCommandById(data.command_id)
                           THEN "CommandNotFound"
                           ELSE "ValueError"
                /\ r.db = DB
                /\ ~r.flushed
                /\ r.ov = Null
                /\ r.commits = 0

(* beside existing rows, a request of an existing creator for an existing  *)
(* command names one member of the command and one of another command      *)
C9_Witness ==
    /\ CreateEnabled
    /\ events # <<>>
    /\ \E data \in MeetingCreateInputs :
         /\ PartnerGetById(data.creator_id)
         /\ GetCommandById(data.command_id)
         /\ \E u, v \in SeqToSet(data.members_ids) \cap DOMAIN UserTbl :
               /\ UserTbl[u].command_id = data.command_id
               /\ UserTbl[v].command_id # data.command_id
         /\ Errors(MeetingServiceCreate(DB, data)) = {"ValueError"}

-----------------------------------------------------------------------------
(* C10 as stated: the OverlapError raised by create, include_users and     *)
(* include_user carries the id that check_overlap_users returned, the id   *)
(* of the existing event that conflicts with the proposed window.          *)
C10_ErrorCarriesConflictingId ==
    /\ \A data \in MeetingCreateInputs :
         \A r \in MeetingServiceCreate(DB, data) :
            r.err = "OverlapError" => r.eid = r.ov
    /\ \A m \in MeetingIds, user_ids \in IdLists :
         \A r \in MeetingServiceIncludeUsers(DB, m, user_ids) :
            r.err = "OverlapError" => r.eid = r.ov
    /\ \A u \in UserIds, x \in EventIds :
         \A r \in CalendarEventServiceIncludeUser(DB, u, x) :
            r.err = "OverlapError" => r.eid = r.ov

(* C10 amended: the OverlapError carries the id of the event the users     *)
(* were to be added to: the new meeting's own event in create, the         *)
(* meeting's event in include_users, the event_id argument in              *)
(* include_user.  It is never the id check_overlap_users returned, which   *)
(* names another, existing event.                                          *)
C10_ErrorCarriesTargetId ==
    /\ \A data \in MeetingCreateInputs :
         \A r \in MeetingServiceCreate(DB, data) :
            r.err = "OverlapError" =>
                /\ r.eid = NewEventId(DB)
                /\ r.eid \notin DOMAIN events
                /\ r.ov \in DOMAIN events
    /\ \A m \in MeetingIds, user_ids \in IdLists :
         \A r \in MeetingServiceIncludeUsers(DB, m, user_ids) :
            r.err = "OverlapError" =>
                /\ r.eid = meetings[m].calendar_event_id
                /\ r.ov \in DOMAIN events \ {r.eid}
    /\ \A u \in UserIds, x \in EventIds :
         \A r \in CalendarEventServiceIncludeUser(DB, u, x) :
            r.err = "OverlapError" =>
                /\ r.eid = x
                /\ r.ov \in DOMAIN events \ {x}

(* an include_user request for an event whose window intersects another    *)
(* event of the user is rejected                                           *)
C10_Witness ==
    \E u \in UserIds, x \in EventIds :
        \E r \in CalendarEventServiceIncludeUser(DB, u, x) :
            /\ r.err = "OverlapError"
            /\ r.eid = x
            /\ r.ov \in DOMAIN events \ {x}

-----------------------------------------------------------------------------
(* C11: an exception raised inside an `async with uow` block makes the     *)
(* coordinator roll back every write flushed and not committed in the      *)
(* block, and the same exception reaches the caller; the committed         *)
(* database is what it was when the exception was raised.  This holds for  *)
(* a coordinator built with a session factory and for one built with an    *)
(* external session.                                                       *)
C11_ExceptionRollsBack ==
    uow.scope =>
        \A exc \in BlockExceptions \ {"none"} :
            LET r == CoordAexit(Cur, exc)
            IN  /\ r.raised = exc
                /\ r.committed = DB
                /\ r.session => r.view = DB
                /\ ~r.scope

(* inside a block of a coordinator with an external session, rows are      *)
(* committed and a further row is flushed and not committed                *)
C11_Witness ==
    /\ uow.scope
    /\ uow.kind = "external"
    /\ events # <<>>
    /\ uow.view # DB
    /\ CoordAexit(Cur, "DomainError").view = DB

-----------------------------------------------------------------------------
(* C12: when the session's commit fails, commit rolls the transaction     *)
(* back and raises the same exception again: the committed database is     *)
(* unchanged and the session's pending writes are gone.                    *)
C12_FailedCommitRollsBack ==
    uow.session =>
        LET r == CoordCommit(Cur, TRUE)
        IN  /\ r.raised = "CommitError"
            /\ r.committed = DB
            /\ r.view = DB

(* a session with a flushed, uncommitted row beside a committed one *)
C12_Witness ==
    /\ uow.session
    /\ uow.scope
    /\ events # <<>>
    /\ uow.view # DB
    /\ CoordCommit(Cur, TRUE).view = DB

-----------------------------------------------------------------------------
(* C13: commit, refresh, rollback and flush called on a coordinator that   *)
(* is not inside an `async with` block (never entered, or already left)    *)
(* fail with an error and change neither the committed database nor the    *)
(* session, for both kinds of coordinator.                                 *)
NoScopeCalls ==
    {CoordCommit(Cur, FALSE), CoordCommit(Cur, TRUE),
     CoordRefresh(Cur, FALSE), CoordRefresh(Cur, TRUE),
     CoordRollback(Cur), CoordFlush(Cur)}

C13_NoScopeCallsFail ==
    ~uow.scope =>
        \A r \in NoScopeCalls :
            /\ r.raised = "RuntimeError"
            /\ r.committed = DB
            /\ r.view = uow.view

(* the part of C13 the code satisfies: a coordinator built with a session  *)
(* factory has no session outside a block, and every call fails            *)
C13_FactoryNoScopeCallsFail ==
    (~uow.scope /\ uow.kind = "factory") =>
        \A r \in NoScopeCalls :
            /\ r.raised = "RuntimeError"
            /\ r.committed = DB
            /\ r.view = uow.view

-----------------------------------------------------------------------------
(* C14: two concurrent create requests whose windows intersect and whose   *)
(* member lists have a user in common both pass the overlap check when     *)
(* they have both flushed and nothing conflicting is committed: the check  *)
(* of one request does not see the uncommitted rows of the other and no    *)
(* lock makes it wait.  Both then commit (see C14_Witness), which leaves   *)
(* two active events that share a participant and intersect.               *)
C14_ConcurrentChecksPass ==
    \A p \in DOMAIN race : \A q \in DOMAIN race \ {p} :
        (/\ race[p].pc = "flushed"
         /\ race[q].pc \in {"flushed", "checked"}
         /\ events = <<>>
         /\ Intersect(race[p].data, race[q].data)
         /\ RaceMembers(p) \cap RaceMembers(q) # {})
        => RaceCheck(p) = {Null}

(* both requests have committed; their events are active, share a          *)
(* participant and intersect                                               *)
C14_Witness ==
    /\ DOMAIN race = Procs
    /\ \A p \in Procs : race[p].pc = "done"
    /\ events[1].is_active /\ events[2].is_active
    /\ events[1].users \cap events[2].users # {}
    /\ Intersect(events[1], events[2])

-----------------------------------------------------------------------------
(* Vocabulary of the grade properties: the tasks of the query in progress  *)
(* that have a grade, a due date in [start_date, end_date] and an assignee *)
(* among `who`; the sum of their grade values; v is the fraction s / n     *)
(* rounded half-up to RoundDigits decimal places.                          *)

GradedInRange(who) ==
    {i \in DOMAIN grade_call.tasks :
        /\ grade_call.tasks[i].assignee_id \in who
        /\ grade_call.tasks[i].grade \in DOMAIN TaskGrade
        /\ grade_call.start_date <= DateOf(grade_call.tasks[i].due_date)
        /\ DateOf(grade_call.tasks[i].due_date) <= grade_call.end_date}

RECURSIVE GradeTotal(_)
GradeTotal(rows) ==
    IF rows = {} THEN 0
    ELSE LET i == CHOOSE i \in rows : TRUE
         IN  TaskGrade[grade_call.tasks[i].grade] + GradeTotal(rows \ {i})

IsRoundedMean(v, s, n) ==
    /\ 2 * n * v - n <= 2 * Scale * s
    /\ 2 * Scale * s < 2 * n * v + n

RECURSIVE Factorial(_)
Factorial(n) == IF n = 0 THEN 1 ELSE n * Factorial(n - 1)

(* the sum over the users us of Factorial(MaxTasks) times the mean grade   *)
(* of the user's graded tasks in range: an integer, since a user has at    *)
(* most MaxTasks tasks                                                     *)
RECURSIVE TotalOfMeans(_)
TotalOfMeans(us) ==
    IF us = {} THEN 0
    ELSE LET u == CHOOSE u \in us : TRUE
         IN  GradeTotal(GradedInRange({u}))
                * (Factorial(MaxTasks)
                     \div Cardinality(GradedInRange({u})))
             + TotalOfMeans(us \ {u})

-----------------------------------------------------------------------------
(* C15: get_avg_grade_period returns the arithmetic mean of the grade      *)
(* values (FAILED 0, DONE_DEADLINE_OUT 1, DONE_DEADLINE 2,                 *)
(* DONE_INITIATIVE 3) of exactly the assignee's tasks that have a grade    *)
(* and a due date in [start_date, end_date], both ends included, rounded   *)
(* half-up to 4 decimal places, and None when there is no such task;       *)
(* tasks without a grade do not affect the result.                         *)
C15_AvgGradeIsRoundedMean ==
    (grade_call.done /\ grade_call.op = "user") =>
        LET rows == GradedInRange({grade_call.who})
        IN  IF rows = {} THEN grade_call.result = {}
            ELSE \E v \in grade_call.result :
                    /\ grade_call.result = {v}
                    /\ IsRoundedMean(v, GradeTotal(rows), Cardinality(rows))

(* the mean of three grades was rounded up: 0.6667 for the sum 2, or       *)
(* 1.6667 and so on                                                        *)
C15_Witness ==
    /\ grade_call.done
    /\ grade_call.op = "user"
    /\ \E v \in grade_call.result :
          v * Cardinality(GradedInRange({grade_call.who}))
             > Scale * GradeTotal(GradedInRange({grade_call.who}))

-----------------------------------------------------------------------------
(* C16: get_avg_grade_period_command returns the unweighted mean of the    *)
(* average grades of the command's users, every assignee counting once     *)
(* whatever the number of their graded tasks in range, rounded to 4        *)
(* decimal places; users without a graded task in range are not counted,   *)
(* and the result is None when no user is counted.                         *)
CommandAssignees ==
    {u \in DOMAIN UserTbl :
        /\ UserTbl[u].command_id = grade_call.who
        /\ GradedInRange({u}) # {}}

C16_CommandAvgIsMeanOfMeans ==
    (grade_call.done /\ grade_call.op = "command") =>
        IF CommandAssignees = {} THEN grade_call.result = {}
        ELSE \E v \in grade_call.result :
                /\ grade_call.result = {v}
                /\ IsRoundedMean(v, TotalOfMeans(CommandAssignees),
                                 Factorial(MaxTasks)
                                    * Cardinality(CommandAssignees))

(* two assignees of the command with different numbers of graded tasks:    *)
(* the result is not the mean over all their graded tasks                  *)
C16_Witness ==
    /\ grade_call.done
    /\ grade_call.op = "command"
    /\ Cardinality(CommandAssignees) = 2
    /\ \E v \in grade_call.result :
          ~IsRoundedMean(v, GradeTotal(GradedInRange(CommandAssignees)),
                         Cardinality(GradedInRange(CommandAssignees)))

-----------------------------------------------------------------------------
(* C17: once the status of a meeting is COMPLETED or CANCELLED, no         *)
(* MeetingService.update call changes it again; in particular it never     *)
(* becomes PLANNED again.                                                  *)
C17_TerminalStatusIsFinal ==
    \A m \in DOMAIN meetings, upd_data \in MeetingPatches :
        meetings[m].status \in {"completed", "cancelled"} =>
            \A r \in MeetingServiceUpdate(DB, m, upd_data) :
                r.db.meetings[m].status = meetings[m].status

-----------------------------------------------------------------------------
(* C18: MeetingService.update sets exactly the fields supplied in the      *)
(* patch to the supplied values and leaves every other field of the        *)
(* meeting, its member set and every other meeting unchanged; for a        *)
(* missing meeting it raises MeetingNotFound and changes nothing.          *)
UpdateFrame(m, upd_data, r) ==
    IF m \notin DOMAIN meetings
    THEN r.err = "MeetingNotFound" /\ r.db = DB
    ELSE /\ r.err = "ok"
         /\ DOMAIN r.db.meetings = DOMAIN meetings
         /\ \A f \in DOMAIN meetings[m] :
               r.db.meetings[m][f] = IF f \in upd_data.fields
                                     THEN upd_data[f]
                                     ELSE meetings[m][f]
         /\ \A x \in DOMAIN meetings \ {m} : r.db.meetings[x] = meetings[x]

C18_UpdateSetsSuppliedFields ==
    \A m \in 1..(MaxUpdMeetings + 1), upd_data \in MeetingPatches :
        \A r \in MeetingServiceUpdate(DB, m, upd_data) :
            UpdateFrame(m, upd_data, r)

(* the part of C18 the code satisfies: patches that do not set status to   *)
(* None                                                                    *)
C18_UpdateSetsSuppliedValues ==
    \A m \in 1..(MaxUpdMeetings + 1), upd_data \in MeetingPatches :
        ~("status" \in upd_data.fields /\ upd_data.status = "None") =>
            \A r \in MeetingServiceUpdate(DB, m, upd_data) :
                UpdateFrame(m, upd_data, r)

-----------------------------------------------------------------------------
(* C19 as stated: MeetingService.update performs no commit when the patch  *)
(* changes nothing: when it is empty, or when every value it supplies      *)
(* equals the meeting's current value.                                     *)
ChangesNothing(m, upd_data) ==
    \A f \in upd_data.fields : upd_data[f] = meetings[m][f]

C19_NoCommitWhenNothingChanges ==
    \A m \in DOMAIN meetings, upd_data \in MeetingPatches :
        ChangesNothing(m, upd_data) =>
            \A r \in MeetingServiceUpdate(DB, m, upd_data) : r.commits = 0

(* C19 amended: MeetingService.update performs no commit when the patch    *)
(* is empty, and calls commit once for every patch that supplies a field,  *)
(* also when every supplied value equals the meeting's current value; in   *)
(* both cases a patch that changes nothing leaves the database as it was.  *)
C19_NoCommitWhenPatchEmpty ==
    \A m \in DOMAIN meetings, upd_data \in MeetingPatches :
        \A r \in MeetingServiceUpdate(DB, m, upd_data) :
            /\ r.commits = IF upd_data.fields = {} THEN 0 ELSE 1
            /\ ChangesNothing(m, upd_data) => (r.err = "ok" /\ r.db = DB)

(* a completed meeting, for which the patch {status: completed} changes    *)
(* nothing and is committed                                                *)
C19_Witness ==
    \E m \in DOMAIN meetings :
        /\ meetings[m].status = "completed"
        /\ \E upd_data \in MeetingPatches :
              /\ upd_data.fields = {"status"}
              /\ ChangesNothing(m, upd_data)
              /\ \E r \in MeetingServiceUpdate(DB, m, upd_data) :
                    r.commits = 1 /\ r.db = DB

-----------------------------------------------------------------------------
(* C20: MeetingService.deactivate is idempotent: after a call the meeting  *)
(* has is_active = false, and a further call returns normally, performs no *)
(* commit and leaves the database as the first call left it; a call for a  *)
(* missing meeting raises MeetingNotFound.                                 *)
C20_DeactivateIdempotent ==
    \A m \in 1..(MaxUpdMeetings + 1) :
        \A r \in MeetingServiceDeactivate(DB, m) :
            IF m \notin DOMAIN meetings
            THEN r.err = "MeetingNotFound" /\ r.db = DB /\ r.commits = 0
            ELSE /\ r.err = "ok"
                 /\ ~r.db.meetings[m].is_active
                 /\ r.commits = IF meetings[m].is_active THEN 1 ELSE 0
                 /\ ~meetings[m].is_active => r.db = DB
                 /\ \A r2 \in MeetingServiceDeactivate(r.db, m) :
                       /\ r2.err = "ok"
                       /\ r2.commits = 0
                       /\ r2.db = r.db

(* one meeting has been deactivated, another is still active *)
C20_Witness ==
    \E m, x \in DOMAIN meetings :
        ~meetings[m].is_active /\ meetings[x].is_active

-----------------------------------------------------------------------------
(* C21: after any sequence of MeetingService.create and                    *)
(* MeetingService.update, patches of start_time and end_time included,     *)
(* the start_time and end_time of each meeting equal those of its          *)
(* calendar event.                                                         *)
C21_MeetingTimesEqualEventTimes ==
    \A m \in DOMAIN meetings :
        LET ev == events[meetings[m].calendar_event_id]
        IN  /\ meetings[m].start_time = ev.start_time
            /\ meetings[m].end_time = ev.end_time

-----------------------------------------------------------------------------
(* C22: the participants of the calendar event of a meeting are exactly    *)
(* the members of the meeting: no operation, CalendarEventService's        *)
(* include_user in particular, adds a user to the event of a meeting       *)
(* without adding the user to the meeting's members.                       *)
C22_ParticipantsEqualMembers ==
    \A m \in DOMAIN meetings :
        events[meetings[m].calendar_event_id].users = meetings[m].members

-----------------------------------------------------------------------------
(* C23: every persisted calendar event has end_time >= start_time, the     *)
(* event that MeetingService.create derives from MeetingCreate included.   *)
C23_EventEndNotBeforeStart ==
    \A e \in DOMAIN events : events[e].end_time >= events[e].start_time

-----------------------------------------------------------------------------
-----------------------------------------------------------------------------
(* C25 as stated: a candidate window with start_time = end_time never      *)
(* conflicts with an existing event: check_overlap_users returns None for  *)
(* it whatever the events of the participants are, and create,             *)
(* include_users and include_user are not rejected for an overlap.         *)
C25_ZeroLengthNeverConflicts ==
    /\ \A t \in Times, user_ids \in SUBSET UserIds, event_id \in EventIds :
         CheckOverlapUsers(DB, t, t, user_ids, event_id) = {Null}
    /\ \A u \in UserIds, x \in DOMAIN events :
         events[x].start_time = events[x].end_time
         => "OverlapError"
               \notin Errors(CalendarEventServiceIncludeUser(DB, u, x))
    /\ \A m \in DOMAIN meetings, user_ids \in IdLists :
         meetings[m].start_time = meetings[m].end_time
         => "OverlapError"
               \notin Errors(MeetingServiceIncludeUsers(DB, m, user_ids))
    /\ \A data \in MeetingCreateInputs :
         data.start_time = data.end_time
         => "OverlapError" \notin Errors(MeetingServiceCreate(DB, data))

(* the events, other than event_id, of the users user_ids that begin       *)
(* before the instant t and end after it                                   *)
Inside(t, user_ids, event_id) ==
    {x \in DOMAIN events :
        /\ x # event_id
        /\ events[x].users \cap user_ids # {}
        /\ events[x].start_time < t
        /\ t < events[x].end_time}

(* C25 amended: a candidate window with start_time = end_time = t          *)
(* conflicts exactly with the other events of the participants that begin  *)
(* before t and end after t.  check_overlap_users returns one of these     *)
(* events, and a create, include_users or include_user request that got    *)
(* as far as the overlap check is rejected with OverlapError; when there   *)
(* is no such event (those that begin or end at t do not count),           *)
(* check_overlap_users returns None and the request is not rejected for    *)
(* an overlap.                                                             *)
C25_ZeroLengthConflictsInside ==
    /\ \A t \in Times, user_ids \in SUBSET UserIds, event_id \in EventIds :
         CheckOverlapUsers(DB, t, t, user_ids, event_id)
            = IF Inside(t, user_ids, event_id) = {} THEN {Null}
              ELSE Inside(t, user_ids, event_id)
    /\ \A u \in DOMAIN UserTbl, x \in DOMAIN events :
         events[x].start_time = events[x].end_time
         => IF Inside(events[x].start_time, {u}, x) = {}
            THEN "OverlapError"
                    \notin Errors(CalendarEventServiceIncludeUser(DB, u, x))
            ELSE Errors(CalendarEventServiceIncludeUser(DB, u, x))
                    = {"OverlapError"}
    /\ \A m \in DOMAIN meetings, user_ids \in IdLists :
         LET uq_new_ids == SeqToSet(user_ids) \ meetings[m].members
         IN  (meetings[m].start_time = meetings[m].end_time
              /\ uq_new_ids # {})
             => IF Inside(meetings[m].start_time, uq_new_ids,
                          meetings[m].calendar_event_id) = {}
                THEN "OverlapError" \notin
                        Errors(MeetingServiceIncludeUsers(DB, m, user_ids))
                ELSE Errors(MeetingServiceIncludeUsers(DB, m, user_ids))
                        = {"OverlapError"}
    /\ \A data \in MeetingCreateInputs :
         (/\ data.start_time = data.end_time
          /\ CreateValidation(data) = "ok")
         => IF Inside(data.start_time, SeqToSet(data.members_ids),
                      NewEventId(DB)) = {}
            THEN Errors(MeetingServiceCreate(DB, data)) = {"ok"}
            ELSE Errors(MeetingServiceCreate(DB, data)) = {"OverlapError"}

(* a zero-length meeting is requested at an instant inside an event of one *)
(* of its members, and is rejected                                         *)
C25_Witness ==
    /\ CreateEnabled
    /\ \E data \in MeetingCreateInputs :
         /\ data.start_time = data.end_time
         /\ Inside(data.start_time, SeqToSet(data.members_ids),
                   NewEventId(DB)) # {}
         /\ Errors(MeetingServiceCreate(DB, data)) = {"OverlapError"}

-----------------------------------------------------------------------------
(* C29: no user is recorded twice as a participant of an event or as a     *)
(* member of a meeting: create (also with repeated member ids),            *)
(* include_users and include_user, also for a user who already takes part  *)
(* in the event, either leave the participants unchanged or add each user  *)
(* once, and none of them ends in a failed commit.                         *)
C29_NoDuplicateParticipant ==
    /\ \A u \in UserIds, x \in DOMAIN events :
         \A r \in CalendarEventServiceIncludeUser(DB, u, x) :
            /\ r.err # "IntegrityError"
            /\ \/ r.db.events[x].users = events[x].users
               \/ /\ u \notin events[x].users
                  /\ r.db.events[x].users = events[x].users \cup {u}
    /\ \A m \in DOMAIN meetings, user_ids \in IdLists :
         LET x == meetings[m].calendar_event_id
             uq_new_ids == SeqToSet(user_ids) \ meetings[m].members
         IN  \A r \in MeetingServiceIncludeUsers(DB, m, user_ids) :
                /\ r.err # "IntegrityError"
                /\ \/ /\ r.db.events[x].users = events[x].users
                      /\ r.db.meetings[m].members = meetings[m].members
                   \/ /\ uq_new_ids \cap events[x].users = {}
                      /\ r.db.events[x].users = events[x].users \cup uq_new_ids
                      /\ r.db.meetings[m].members
                            = meetings[m].members \cup uq_new_ids
    /\ \A data \in MeetingCreateInputs :
         \A r \in MeetingServiceCreate(DB, data) :
            /\ r.err # "IntegrityError"
            /\ r.err = "ok"
               => /\ r.db.meetings[NewMeetingId(DB)].members
                        = SeqToSet(data.members_ids)
                  /\ r.db.events[NewEventId(DB)].users
                        = SeqToSet(data.members_ids)

-----------------------------------------------------------------------------
(* the events, other than the meeting's own, in which one of new_ids takes *)
(* part and whose window passes the test of check_overlap_users against    *)
(* the window of meeting m                                                 *)
NewUsersConflicts(m, new_ids) ==
    {x \in DOMAIN events :
        /\ x # meetings[m].calendar_event_id
        /\ events[x].users \cap new_ids # {}
        /\ Conflict(events[x].start_time, events[x].end_time,
                    meetings[m].start_time, meetings[m].end_time)}

(* what C26 says of the effects: a rejected call changes nothing, and a    *)
(* successful call has put every new user into the meeting's members and   *)
(* the event's participants with one commit (none when no id is new)       *)
C26_Effects(m, new_ids, r) ==
    /\ r.err \in {"OverlapError", "ValueError"} => r.db = DB
    /\ r.err = "ok"
       => /\ new_ids \subseteq r.db.meetings[m].members
          /\ new_ids \subseteq r.db.events[meetings[m].calendar_event_id].users
          /\ r.commits = IF new_ids = {} THEN 0 ELSE 1

(* C26 as stated: include_users checks only the ids that are not members   *)
(* yet; it is rejected with OverlapError iff a new user takes part in      *)
(* another event intersecting the meeting's window, and with a validation  *)
(* error if a new user is not in the meeting's command; a rejection        *)
(* changes nothing, a success adds every new user to both collections in   *)
(* one commit, and the other events of the existing members never cause a  *)
(* rejection.                                                              *)
C26_IncludeUsersChecksNewIds ==
    \A m \in DOMAIN meetings, user_ids \in IdLists :
        LET new_ids == SeqToSet(user_ids) \ meetings[m].members
            errs == Errors(MeetingServiceIncludeUsers(DB, m, user_ids))
        IN  /\ "OverlapError" \in errs <=> NewUsersConflicts(m, new_ids) # {}
            /\ (/\ new_ids # {}
                /\ ~UserShareCommandId(new_ids, meetings[m].command_id))
               => errs = {"ValueError"}
            /\ \A r \in MeetingServiceIncludeUsers(DB, m, user_ids) :
                  C26_Effects(m, new_ids, r)

(* C26 amended: as above, but the validation error is raised iff no new    *)
(* user has a conflicting event and some new user is not in the meeting's  *)
(* command: the overlap check comes first, and a call whose new users      *)
(* have a conflict is rejected with OverlapError whatever their command.   *)
C26_OverlapBeforeCommand ==
    \A m \in DOMAIN meetings, user_ids \in IdLists :
        LET new_ids == SeqToSet(user_ids) \ meetings[m].members
            errs == Errors(MeetingServiceIncludeUsers(DB, m, user_ids))
        IN  /\ "OverlapError" \in errs <=> NewUsersConflicts(m, new_ids) # {}
            /\ NewUsersConflicts(m, new_ids) # {} => errs = {"OverlapError"}
            /\ "ValueError" \in errs
               <=> /\ new_ids # {}
                   /\ NewUsersConflicts(m, new_ids) = {}
                   /\ ~UserShareCommandId(new_ids, meetings[m].command_id)
            /\ (/\ new_ids # {}
                /\ NewUsersConflicts(m, new_ids) = {}
                /\ ~UserShareCommandId(new_ids, meetings[m].command_id))
               => errs = {"ValueError"}
            /\ \A r \in MeetingServiceIncludeUsers(DB, m, user_ids) :
                  C26_Effects(m, new_ids, r)

(* a member of the meeting has another event inside the meeting's window;  *)
(* a new user of another command who takes part in that event is rejected  *)
(* with OverlapError, and a new user without events is added together      *)
(* with the member, named again in the same request                        *)
C26_Witness ==
    \E m \in DOMAIN meetings, x \in DOMAIN events :
        /\ x # meetings[m].calendar_event_id
        /\ events[x].users \cap meetings[m].members # {}
        /\ Conflict(events[x].start_time, events[x].end_time,
                    meetings[m].start_time, meetings[m].end_time)
        /\ \E u \in events[x].users \ meetings[m].members :
              /\ ~UserShareCommandId({u}, meetings[m].command_id)
              /\ Errors(MeetingServiceIncludeUsers(DB, m, <<u>>))
                    = {"OverlapError"}
        /\ \E u \in events[x].users \cap meetings[m].members,
              v \in UserIds \ meetings[m].members :
              \E r \in MeetingServiceIncludeUsers(DB, m, <<u, v>>) :
                 /\ r.err = "ok"
                 /\ r.commits = 1
                 /\ v \in r.db.meetings[m].members

-----------------------------------------------------------------------------
(* C27: in every committed state each meeting references one existing      *)
(* calendar event and no two meetings reference the same event; a meeting  *)
(* and its event are committed together or not at all (create either adds  *)
(* the meeting with the event it references, or adds nothing), so there is *)
(* no meeting without its event and no meeting-derived event without its   *)
(* meeting; update, include_users and deactivate create no event and       *)
(* leave the reference as it is.                                           *)
C27_OneEventPerMeeting ==
    /\ \A m \in DOMAIN meetings :
         meetings[m].calendar_event_id \in DOMAIN events
    /\ \A m1 \in DOMAIN meetings, m2 \in DOMAIN meetings :
         meetings[m1].calendar_event_id = meetings[m2].calendar_event_id
         => m1 = m2
    /\ \A data \in MeetingCreateInputs :
         \A r \in MeetingServiceCreate(DB, data) :
            IF r.err = "ok"
            THEN /\ DOMAIN r.db.meetings
                       = DOMAIN meetings \cup {NewMeetingId(DB)}
                 /\ DOMAIN r.db.events = DOMAIN events \cup {NewEventId(DB)}
                 /\ NewMeetingId(DB) \notin DOMAIN meetings
                 /\ NewEventId(DB) \notin DOMAIN events
                 /\ r.db.meetings[NewMeetingId(DB)].calendar_event_id
                       = NewEventId(DB)
                 /\ \A m \in DOMAIN meetings : r.db.meetings[m] = meetings[m]
                 /\ \A x \in DOMAIN events : r.db.events[x] = events[x]
            ELSE r.db = DB
    /\ \A m \in MeetingIds :
         \A r \in MeetingServiceDeactivate(DB, m)
                    \cup UNION {MeetingServiceUpdate(DB, m, upd_data) :
                                  upd_data \in MeetingUpdateInputs}
                    \cup UNION {MeetingServiceIncludeUsers(DB, m, user_ids) :
                                  user_ids \in IdLists} :
            /\ DOMAIN r.db.events = DOMAIN events
            /\ DOMAIN r.db.meetings = DOMAIN meetings
            /\ \A k \in DOMAIN meetings :
                  r.db.meetings[k].calendar_event_id
                     = meetings[k].calendar_event_id

(* a meeting that was created after another event, then rescheduled,       *)
(* extended by a member and deactivated: it still references the event it  *)
(* was created with, and there are no further events                       *)
C27_Witness ==
    \E m \in DOMAIN meetings :
        /\ ~meetings[m].is_active
        /\ meetings[m].start_time
              # events[meetings[m].calendar_event_id].start_time
        /\ Cardinality(meetings[m].members) = 2
        /\ meetings[m].calendar_event_id = 2
        /\ Cardinality(DOMAIN events) = 2

-----------------------------------------------------------------------------
(* C30: deactivate changes only Meeting.is_active: the meeting's calendar  *)
(* event (its is_active flag, window and participants), the meeting's      *)
(* members and every other row are left as they are, so the event of a     *)
(* deactivated meeting stays active and check_overlap_users still reports  *)
(* it for a window that conflicts with it and a participant of it.         *)
C30_DeactivateFrame ==
    /\ \A m \in MeetingIds :
         \A r \in MeetingServiceDeactivate(DB, m) :
            /\ r.db.events = events
            /\ DOMAIN r.db.meetings = DOMAIN meetings
            /\ \A k \in DOMAIN meetings :
                  /\ k # m => r.db.meetings[k] = meetings[k]
                  /\ r.db.meetings[k]
                        = [meetings[k] EXCEPT
                              !.is_active = r.db.meetings[k].is_active]
            /\ m \in DOMAIN meetings
               => /\ r.err = "ok"
                  /\ ~r.db.meetings[m].is_active
    /\ \A m \in DOMAIN meetings :
         LET x == meetings[m].calendar_event_id
         IN  ~meetings[m].is_active
             => /\ events[x].is_active
                /\ \A s \in Times, e \in Times, u \in events[x].users :
                      Conflict(events[x].start_time, events[x].end_time, s, e)
                      => /\ x \in OverlapRows(DB, s, e, {u}, Null)
                         /\ Null \notin CheckOverlapUsers(DB, s, e, {u}, Null)

(* a deactivated meeting with members over a non-empty window, whose event *)
(* makes a later include_user of one of its members fail                   *)
C30_Witness ==
    \E m \in DOMAIN meetings, y \in DOMAIN events :
        /\ ~meetings[m].is_active
        /\ meetings[m].members # {}
        /\ events[meetings[m].calendar_event_id].start_time
              < events[meetings[m].calendar_event_id].end_time
        /\ y # meetings[m].calendar_event_id
        /\ \E u \in meetings[m].members :
              Errors(CalendarEventServiceIncludeUser(DB, u, y))
                 = {"OverlapError"}

-----------------------------------------------------------------------------
(* the comment reached from c by following parent_comment_id k times       *)
(* (Null once the chain has ended)                                         *)
RECURSIVE AncestorAt(_, _)
AncestorAt(c, k) ==
    IF k = 0 THEN c
    ELSE LET a == AncestorAt(c, k - 1)
         IN  IF a \in DOMAIN comments THEN comments[a].parent_comment_id
             ELSE Null

(* C28: after any sequence of create_comment and update_comment the        *)
(* parent relation is a forest per task: no comment is its own ancestor,   *)
(* every non-null parent_comment_id is the id of an existing comment, and  *)
(* the parent of a comment belongs to the task of the comment.             *)
C28_CommentForestPerTask ==
    \A c \in DOMAIN comments :
        /\ \A k \in 1..MaxComments : AncestorAt(c, k) # c
        /\ comments[c].parent_comment_id # Null
           => /\ comments[c].parent_comment_id \in DOMAIN comments
              /\ comments[comments[c].parent_comment_id].task_id
                    = comments[c].task_id

=============================================================================
